---------------------------- MODULE Spec2Model ----------------------------
(***************************************************************************)
(* A model of the directory serializer of carabiner-dev/model-signing      *)
(* (serializer/dir/serializer.go): the walk of a model directory with its  *)
(* ignore rules, the manifest it builds, and the root digest folded from    *)
(* the manifest.                                                           *)
(*                                                                         *)
(* Strings are sequences of one-character strings, so that prefix tests,   *)
(* byte-wise comparison and hex coding are computed, not assumed.          *)
(***************************************************************************)
EXTENDS Integers, Sequences, FiniteSets, TLC

(***************************************************************************)
(* Bounds of the model.                                                    *)
(***************************************************************************)
\* entries of a tree besides its root
MaxEntries == 3
\* caller-supplied ignore specifiers in Options.IgnorePaths
MaxIgnore == 1
\* entries of a hand-built manifest given to ComputeRootDigest
MaxManifest == 3
\* entries of a tree that is serialized twice
MaxChangeEntries == 2

(***************************************************************************)
(* Characters and strings.                                                 *)
(***************************************************************************)
\* Runs of ASCII characters in byte order: '-' (45) to ':' (58), 'A' (65)
\* to 'Z' (90), 'a' (97) to 'z' (122).
AsciiPunct ==
  << "-", ".", "/", "0", "1", "2", "3", "4", "5", "6", "7", "8", "9", ":" >>
AsciiUpper ==
  << "A", "B", "C", "D", "E", "F", "G", "H", "I", "J", "K", "L", "M",
     "N", "O", "P", "Q", "R", "S", "T", "U", "V", "W", "X", "Y", "Z" >>
AsciiLower ==
  << "a", "b", "c", "d", "e", "f", "g", "h", "i", "j", "k", "l", "m",
     "n", "o", "p", "q", "r", "s", "t", "u", "v", "w", "x", "y", "z" >>

Range(f) == {f[i] : i \in DOMAIN f}

IndexOf(table, c) == CHOOSE i \in 1..Len(table) : table[i] = c

\* The byte value of each character.
Ord == [c \in Range(AsciiPunct) \cup Range(AsciiUpper) \cup Range(AsciiLower) |->
          IF c \in Range(AsciiPunct) THEN 44 + IndexOf(AsciiPunct, c)
          ELSE IF c \in Range(AsciiUpper) THEN 64 + IndexOf(AsciiUpper, c)
          ELSE 96 + IndexOf(AsciiLower, c)]

\* Go's s < t on strings: lexicographic on bytes.
RECURSIVE StrLess(_, _)
StrLess(s, t) ==
  IF t = << >> THEN FALSE
  ELSE IF s = << >> THEN TRUE
  ELSE IF Ord[Head(s)] # Ord[Head(t)] THEN Ord[Head(s)] < Ord[Head(t)]
  ELSE StrLess(Tail(s), Tail(t))

\* strings.HasPrefix
HasPrefix(s, prefix) ==
  Len(s) >= Len(prefix) /\ SubSeq(s, 1, Len(prefix)) = prefix

\* os.PathSeparator of the host (a POSIX host)
Separator == "/"

\* filepath.ToSlash: every Separator replaced by '/'.
ToSlash(path) ==
  IF Separator = "/" THEN path
  ELSE [i \in 1..Len(path) |-> IF path[i] = Separator THEN "/" ELSE path[i]]

\* filepath.IsAbs on a POSIX host
IsAbs(path) == HasPrefix(path, << Separator >>)

\* filepath.Join(dir, name) of a clean dir and a single name
Join(dir, name) ==
  IF dir = << Separator >> THEN dir \o name ELSE dir \o << Separator >> \o name

\* The elements of a clean path, split at the separators ("/m/a" gives
\* <<"", "m", "a">>: a rooted path starts with an empty element).
RECURSIVE SplitFrom(_, _, _)
SplitFrom(path, i, cur) ==
  IF i > Len(path) THEN << cur >>
  ELSE IF path[i] = Separator THEN << cur >> \o SplitFrom(path, i + 1, << >>)
  ELSE SplitFrom(path, i + 1, Append(cur, path[i]))

Split(path) == SplitFrom(path, 1, << >>)

RECURSIVE JoinElems(_)
JoinElems(elems) ==
  IF elems = << >> THEN << >>
  ELSE IF Len(elems) = 1 THEN elems[1]
  ELSE elems[1] \o << Separator >> \o JoinElems(Tail(elems))

\* Length of the longest common prefix of two element sequences.
RECURSIVE CommonLen(_, _)
CommonLen(a, b) ==
  IF a = << >> \/ b = << >> \/ Head(a) # Head(b) THEN 0
  ELSE 1 + CommonLen(Tail(a), Tail(b))

\* filepath.Rel(basepath, targpath) of two clean paths: the lexical path
\* from base to targ, ".." once for every element of base left after the
\* common elements, then the rest of targ; an error when only one of the
\* two is rooted.
Rel(basepath, targpath) ==
  IF IsAbs(basepath) # IsAbs(targpath) THEN [err |-> TRUE, path |-> << >>]
  ELSE IF basepath = targpath THEN [err |-> FALSE, path |-> << "." >>]
  ELSE
    LET base == IF basepath = << Separator >> THEN << << >> >> ELSE Split(basepath)
        targ == IF targpath = << Separator >> THEN << << >> >> ELSE Split(targpath)
        n    == CommonLen(base, targ)
        ups  == [i \in 1..(Len(base) - n) |-> << ".", "." >>]
        rest == SubSeq(targ, n + 1, Len(targ))
    IN  [err |-> FALSE, path |-> JoinElems(ups \o rest)]

(***************************************************************************)
(* The names and the trees of the model.                                   *)
(***************************************************************************)
nA == << "a" >>
nB == << "b" >>
nL == << "l" >>
nADotB == << "a", ".", "b" >>
nDotDotA == << ".", ".", "a" >>
nGit == << ".", "g", "i", "t" >>
nGitignore == << ".", "g", "i", "t", "i", "g", "n", "o", "r", "e" >>
nGitattributes ==
  << ".", "g", "i", "t", "a", "t", "t", "r", "i", "b", "u", "t", "e", "s" >>
nGithub == << ".", "g", "i", "t", "h", "u", "b" >>

\* The resolved absolute path of the model directory (filepath.Abs).
RootPath == << "/", "m" >>

(***************************************************************************)
(* The file system.  A tree maps the key of each entry (the sequence of    *)
(* names from the root, << >> for the root itself) to what os.Lstat        *)
(* reports of it: a directory, a regular file with its content, or a       *)
(* symbolic link with the type of its target.                              *)
(***************************************************************************)
\* The entries a tree of the model may hold.
Universe ==
  { << nA >>, << nA, nB >>, << nA, nGit >>, << nA, nGit, nB >>,
    << nA, nGitignore >>, << nA, nL >>,
    << nADotB >>,
    << nDotDotA >>, << nDotDotA, nB >>, << nDotDotA, nL >>,
    << nGit >>, << nGit, nB >>,
    << nGitignore >>, << nGitattributes >>,
    << nGithub >>, << nGithub, nB >> }

DirKeys == { << nA >>, << nA, nGit >>, << nDotDotA >>, << nGit >>, << nGithub >> }
LinkKeys == { << nA, nL >>, << nDotDotA, nL >> }

\* File contents: the empty file and a file of one byte (bytes are records,
\* see Byte below).
Contents == { << >>, << [v |-> 1, pre |-> << >>] >> }

DirNode == [kind |-> "dir", content |-> << >>, target |-> "none"]
FileNode(c) == [kind |-> "file", content |-> c, target |-> "none"]
LinkNode(t) == [kind |-> "symlink", content |-> << >>, target |-> t]

NodeChoices(k) ==
  IF k \in DirKeys THEN { DirNode }
  ELSE IF k \in LinkKeys THEN { LinkNode(t) : t \in { "file", "dir" } }
  ELSE { FileNode(c) : c \in Contents }

Parent(k) == SubSeq(k, 1, Len(k) - 1)

\* Every entry's parent is a directory of the tree.
Closed(S) == \A k \in S : Len(k) = 1 \/ (Parent(k) \in S /\ Parent(k) \in DirKeys)

KeySets == { S \in SUBSET Universe : Cardinality(S) <= MaxEntries /\ Closed(S) }

TreesOn(S) ==
  { t \in [S \cup { << >> } -> UNION { NodeChoices(k) : k \in Universe }] :
      /\ t[<< >>] = DirNode
      /\ \A k \in S : t[k] \in NodeChoices(k) }

Trees == UNION { TreesOn(S) : S \in KeySets }

\* The entries directly inside directory k (os.ReadDir).
Children(tree, k) ==
  { c \in DOMAIN tree : Len(c) = Len(k) + 1 /\ Parent(c) = k }

\* The path filepath.Walk hands to the visitor for entry k: the root path,
\* then filepath.Join(path, name) at every level.
RECURSIVE PathOf(_)
PathOf(k) == IF k = << >> THEN RootPath ELSE Join(PathOf(Parent(k)), k[Len(k)])


\* filepath.Base of a clean path that is not the root directory
Base(path) == LET elems == Split(path) IN elems[Len(elems)]

(***************************************************************************)
(* Bytes, SHA-256 and hex.  A byte is a record: v is its value, 0..255;    *)
(* SHA-256 is an ideal hash, whose digest of a non-empty input starts with *)
(* a byte that stands for the input itself (v = -1, pre the input), so     *)
(* that two inputs have the same digest only when they are equal.  The     *)
(* digest of the empty input is the known one.  A character of a digest    *)
(* string is a record as well: ch is the character, and a character that   *)
(* is half of the hex form of an ideal byte carries that byte in of.       *)
(***************************************************************************)
Byte(n) == [v |-> n, pre |-> << >>]
IdealByte(data) == [v |-> -1, pre |-> data]

\* sha256.Size
Sha256Size == 32

\* SHA-256 of the empty input: e3b0c442 98fc1c14 9afbf4c8 996fb924
\* 27ae41e4 649b934c a495991b 7852b855
EmptySha256 ==
  << 227, 176, 196, 66, 152, 252, 28, 20, 154, 251, 244, 200, 153, 111, 185, 36,
     39, 174, 65, 228, 100, 155, 147, 76, 164, 149, 153, 27, 120, 82, 184, 85 >>

\* sha256.Sum256 / hash.Hash.Sum of everything written
Sha256(data) ==
  IF data = << >> THEN [i \in 1..Sha256Size |-> Byte(EmptySha256[i])]
  ELSE [i \in 1..Sha256Size |-> IF i = 1 THEN IdealByte(data) ELSE Byte(0)]

Ch(c) == [ch |-> c, of |-> << >>]
\* A Go string literal as a digest string
Lit(s) == [i \in 1..Len(s) |-> Ch(s[i])]

\* encoding/hex's table "0123456789abcdef"
Hextable ==
  << "0", "1", "2", "3", "4", "5", "6", "7", "8", "9", "a", "b", "c", "d", "e", "f" >>

RECURSIVE Flatten(_)
Flatten(seqs) == IF seqs = << >> THEN << >> ELSE Head(seqs) \o Flatten(Tail(seqs))

EncodeByte(b) ==
  IF b.v >= 0 THEN << Ch(Hextable[(b.v \div 16) + 1]), Ch(Hextable[(b.v % 16) + 1]) >>
  ELSE << [ch |-> "hi", of |-> << b >>], [ch |-> "lo", of |-> << b >>] >>

\* hex.EncodeToString
HexEncode(bytes) == Flatten([i \in 1..Len(bytes) |-> EncodeByte(bytes[i])])

\* encoding/hex fromHexChar: the value of a hex digit of either case
HexDigits ==
  << "0", "1", "2", "3", "4", "5", "6", "7", "8", "9", "a", "b", "c", "d", "e", "f",
     "A", "B", "C", "D", "E", "F" >>

IsHexChar(c) == c.of # << >> \/ c.ch \in Range(HexDigits)

HexValue(c) ==
  LET i == IndexOf(HexDigits, c.ch) IN IF i > 16 THEN i - 7 ELSE i - 1

DecodePair(hi, lo) ==
  IF hi.of = << >> /\ lo.of = << >> THEN Byte(16 * HexValue(hi) + HexValue(lo))
  ELSE IF hi.of = lo.of /\ hi.ch = "hi" /\ lo.ch = "lo" THEN hi.of[1]
  ELSE IdealByte(<< hi, lo >>)

\* A decoder that drops a last character without a partner.
HexDecodeLenient(s) ==
  IF \E i \in 1..Len(s) : ~IsHexChar(s[i])
  THEN [err |-> TRUE, bytes |-> << >>]
  ELSE [err |-> FALSE,
        bytes |-> [i \in 1..(Len(s) \div 2) |-> DecodePair(s[2 * i - 1], s[2 * i])]]

\* hex.DecodeString: an error for a character that is no hex digit and for
\* an odd length.
HexDecode(s) ==
  IF (\E i \in 1..Len(s) : ~IsHexChar(s[i])) \/ Len(s) % 2 = 1
  THEN [err |-> TRUE, bytes |-> << >>]
  ELSE [err |-> FALSE,
        bytes |-> [i \in 1..(Len(s) \div 2) |-> DecodePair(s[2 * i - 1], s[2 * i])]]

\* The external hasher (github.com/carabiner-dev/hasher), asked for SHA-256:
\* the lowercase hex digest of the file's content.
FileHash(content) == HexEncode(Sha256(content))

(***************************************************************************)
(* options.Options                                                         *)
(***************************************************************************)
\* The entries an ignore specifier of the model names.
SpecKeys ==
  { << nA >>, << nA, nB >>, << nA, nGit >>, << nDotDotA >>, << nADotB >> }

\* The root-relative and the absolute specifier of entry k.
RelSpec(k) == JoinElems(k)
AbsSpec(k) == PathOf(k)

\* An absolute path outside the model directory that starts with its path.
OutsidePath == << "/", "m", "a" >>

IgnoreChoices(tree) ==
  { RelSpec(k) : k \in SpecKeys \cap DOMAIN tree }
    \cup { AbsSpec(k) : k \in SpecKeys \cap DOMAIN tree }
    \cup { OutsidePath }

SeqsUpTo(S, n) == UNION { [1..m -> S] : m \in 0..n }

OptionsFor(tree) ==
  [IgnorePaths : SeqsUpTo(IgnoreChoices(tree), MaxIgnore),
   IgnoreGitPaths : BOOLEAN,
   AllowSymlinks : BOOLEAN]

\* The git names without .github.
gitPathsShort == << nGit, nGitignore, nGitattributes >>

\* gitPaths()
gitPaths == << nGit, nGitignore, nGitattributes, nGithub >>


(***************************************************************************)
(* Serializer.shouldIgnore                                                 *)
(***************************************************************************)
\* The path an ignore specifier is matched as (lines 61-75): skip is TRUE
\* for an absolute specifier taken to lie outside the model directory.
CheckPath(ignore0, modelPath) ==
  LET ignore == ToSlash(ignore0) IN
  IF IsAbs(ignore)
  THEN LET r == Rel(modelPath, ignore) IN
       IF r.err \/ HasPrefix(r.path, << ".", "." >>)
       THEN [skip |-> TRUE, path |-> << >>]
       ELSE [skip |-> FALSE, path |-> ToSlash(r.path)]
  ELSE [skip |-> FALSE, path |-> ignore]

\* A test that also takes the specifier at any deeper level of the path.
MatchesAnyLevel(relPath, checkPath) ==
  \E i \in 1..Len(relPath) :
    /\ i = 1 \/ relPath[i - 1] = "/"
    /\ LET rest == SubSeq(relPath, i, Len(relPath))
       IN  rest = checkPath \/ HasPrefix(rest, checkPath \o << "/" >>)

\* The test of line 78: the path is the specifier or lies under it.
Matches(relPath, checkPath) ==
  relPath = checkPath \/ HasPrefix(relPath, checkPath \o << "/" >>)

shouldIgnore(path, modelPath, ignoreList) ==
  LET r == Rel(modelPath, path) IN
  IF r.err THEN [ignore |-> FALSE, err |-> TRUE]
  ELSE LET relPath == ToSlash(r.path) IN
       [ignore |-> \E i \in 1..Len(ignoreList) :
                     LET c == CheckPath(ignoreList[i], modelPath) IN
                     ~c.skip /\ Matches(relPath, c.path),
        err |-> FALSE]

(***************************************************************************)
(* The state.                                                              *)
(***************************************************************************)
VARIABLES
  tree,         \* the file system under the model directory
  opts,         \* the caller's options.Options, held by the Serializer
  pc,           \* where ComputeDigest (or ComputeRootDigest alone) stands
  ignorePaths,  \* Serialize: the complete ignore list
  stack,        \* filepath.Walk: the entries left to visit, innermost last
  filesToHash,  \* Serialize: the files collected by the visitor
  manifest,     \* the *Manifest Serialize returned
  serErr,       \* the error Serialize returned
  idx,          \* ComputeRootDigest: the entry the loop stands at
  hasher,       \* ComputeRootDigest: the bytes written to the SHA-256 hasher
  rootDigest,   \* the string ComputeRootDigest returned
  rootErr,      \* the error ComputeRootDigest returned
  digest,       \* the string ComputeDigest returned
  digestErr,    \* the error ComputeDigest returned
  prev          \* the tree and results of the call before, if any

vars == << tree, opts, pc, ignorePaths, stack, filesToHash, manifest, serErr,
           idx, hasher, rootDigest, rootErr, digest, digestErr, prev >>

NoErr == [kind |-> "none", path |-> << >>]
NilManifest == [nil |-> TRUE, ModelName |-> << >>, Files |-> << >>]
None ==
  [set |-> FALSE, tree |-> << >>, filesToHash |-> << >>, manifest |-> NilManifest,
   serErr |-> NoErr, rootDigest |-> << >>, digest |-> << >>, digestErr |-> NoErr]

\* options.Default()
Default == [IgnorePaths |-> << >>, IgnoreGitPaths |-> TRUE, AllowSymlinks |-> FALSE]

Idle ==
  /\ ignorePaths = << >> /\ stack = << >> /\ filesToHash = << >>
  /\ manifest = NilManifest /\ serErr = NoErr
  /\ idx = 0 /\ hasher = << >> /\ rootDigest = << >> /\ rootErr = NoErr
  /\ digest = << >> /\ digestErr = NoErr

Init ==
  /\ tree \in Trees
  /\ opts \in OptionsFor(tree)
  /\ pc = "idle"
  /\ Idle
  /\ prev = None

(***************************************************************************)
(* Serializer.Serialize                                                    *)
(***************************************************************************)
\* The git names appended to the caller's own list.
CallerListShared(own, complete) == complete

\* The caller's list after lines 94-102: Serialize made a list of its own
\* (make, copy) and appended the git names to that one.
CallerList(own, complete) == own

\* Lines 87-105: the absolute path, the complete ignore list, and the walk
\* about to visit the root.
Start ==
  /\ pc = "idle"
  /\ LET complete ==
           opts.IgnorePaths \o
             (IF opts.IgnoreGitPaths
              THEN [i \in 1..Len(gitPaths) |-> Join(RootPath, gitPaths[i])]
              ELSE << >>)
     IN  /\ ignorePaths' = complete
         /\ opts' = [opts EXCEPT !.IgnorePaths = CallerList(opts.IgnorePaths, complete)]
  /\ stack' = << { << >> } >>
  /\ filesToHash' = << >>
  /\ pc' = "walk"
  /\ UNCHANGED << tree, manifest, serErr, idx, hasher, rootDigest, rootErr,
                  digest, digestErr, prev >>

\* What the visitor (lines 107-147) returns for entry k.
Visit(k) ==
  LET info == tree[k]
      path == PathOf(k)
      ig == shouldIgnore(path, RootPath, ignorePaths)
  IN  IF info.kind = "symlink" /\ ~opts.AllowSymlinks
      THEN [res |-> "error", err |-> [kind |-> "symlink", path |-> path]]
      ELSE IF ig.err THEN [res |-> "error", err |-> [kind |-> "rel", path |-> path]]
      ELSE IF info.kind = "dir"
      THEN [res |-> IF ig.ignore THEN "skipdir" ELSE "descend", err |-> NoErr]
      ELSE IF ig.ignore THEN [res |-> "omit", err |-> NoErr]
      ELSE IF info.kind = "file" THEN [res |-> "add", err |-> NoErr]
      ELSE [res |-> "omit", err |-> NoErr]

\* The stack without its exhausted directories.
RECURSIVE PopEmpty(_)
PopEmpty(st) ==
  IF st # << >> /\ st[Len(st)] = { } THEN PopEmpty(SubSeq(st, 1, Len(st) - 1)) ELSE st

\* filepath.Walk visits one more entry: any entry left in the innermost
\* directory (the directory's entries in the order the walk takes them).
\* An error of the visitor ends the walk and Serialize (lines 149-151).
WalkVisit ==
  /\ pc = "walk"
  /\ \E k \in stack[Len(stack)] :
       LET v == Visit(k)
           rest == [stack EXCEPT ![Len(stack)] = @ \ { k }]
           next == PopEmpty(IF v.res = "descend"
                            THEN Append(rest, Children(tree, k)) ELSE rest)
       IN  IF v.res = "error"
           THEN /\ serErr' = v.err
                /\ manifest' = NilManifest
                /\ stack' = << >>
                /\ UNCHANGED filesToHash
                /\ pc' = "serialized"
           ELSE /\ filesToHash' =
                     IF v.res = "add" THEN Append(filesToHash, PathOf(k))
                     ELSE filesToHash
                /\ stack' = next
                /\ pc' = IF next = << >> THEN "hash" ELSE "walk"
                /\ UNCHANGED << manifest, serErr >>
  /\ UNCHANGED << tree, opts, ignorePaths, idx, hasher, rootDigest, rootErr,
                  digest, digestErr, prev >>

\* The file a path names.
KeyOfPath(path) == CHOOSE k \in DOMAIN tree : PathOf(k) = path

\* hasher.HashFiles with Algorithms = {sha256}: per path, per algorithm, the
\* hex digest of the file's content.
HashFiles(paths) ==
  [p \in Range(paths) |-> [sha256 |-> FileHash(tree[KeyOfPath(p)].content)]]

\* Lines 163-182: one descriptor per collected file, in the order collected.
Descriptors(paths, fileHashes) ==
  [i \in 1..Len(paths) |->
     [Name |-> ToSlash(Rel(RootPath, paths[i]).path),
      Digest |-> { << "sha256", fileHashes[paths[i]].sha256 >> }]]

\* An insertion whose comparison is turned round: Name > Name.
RECURSIVE InsertDescending(_, _)
InsertDescending(sorted, d) ==
  IF sorted = << >> THEN << d >>
  ELSE IF StrLess(Head(sorted).Name, d.Name) THEN << d >> \o sorted
  ELSE << Head(sorted) >> \o InsertDescending(Tail(sorted), d)

\* sort.Slice(fileDescriptors, Name < Name), lines 185-187
RECURSIVE Insert(_, _)
Insert(sorted, d) ==
  IF sorted = << >> THEN << d >>
  ELSE IF StrLess(d.Name, Head(sorted).Name) THEN << d >> \o sorted
  ELSE << Head(sorted) >> \o Insert(Tail(sorted), d)

\* The descriptors left in the order the walk collected them.
SortSliceSkipped(fds) == fds

RECURSIVE SortSlice(_)
SortSlice(fds) ==
  IF fds = << >> THEN << >>
  ELSE Insert(SortSlice(SubSeq(fds, 1, Len(fds) - 1)), fds[Len(fds)])

\* Lines 153-195: the files are hashed, the manifest is built, sorted and
\* returned; a failure of the hasher (a file that cannot be read) is
\* returned instead.
HashAndBuild ==
  /\ pc = "hash"
  /\ \E ok \in BOOLEAN :
       IF ok
       THEN /\ manifest' =
                 [nil |-> FALSE,
                  ModelName |-> Base(RootPath),
                  Files |-> SortSlice(Descriptors(filesToHash, HashFiles(filesToHash)))]
            /\ serErr' = NoErr
       ELSE /\ filesToHash # << >>
            /\ manifest' = NilManifest
            /\ serErr' = [kind |-> "hash", path |-> << >>]
  /\ stack' = << >>
  /\ pc' = "serialized"
  /\ UNCHANGED << tree, opts, ignorePaths, filesToHash, idx, hasher, rootDigest,
                  rootErr, digest, digestErr, prev >>


(***************************************************************************)
(* ComputeRootDigest and ComputeDigest                                     *)
(***************************************************************************)
\* ComputeDigest, lines 229-232: Serialize failed, and its error is returned.
DigestFail ==
  /\ pc = "serialized"
  /\ serErr # NoErr
  /\ digest' = << >>
  /\ digestErr' = serErr
  /\ pc' = "done"
  /\ UNCHANGED << tree, opts, ignorePaths, stack, filesToHash, manifest, serErr,
                  idx, hasher, rootDigest, rootErr, prev >>

\* ComputeDigest, line 234, and ComputeRootDigest, line 201: the manifest
\* goes to ComputeRootDigest, which starts a new hasher.
CallRoot ==
  /\ pc = "serialized"
  /\ serErr = NoErr
  /\ idx' = 1
  /\ hasher' = << >>
  /\ pc' = "root"
  /\ UNCHANGED << tree, opts, ignorePaths, stack, filesToHash, manifest, serErr,
                  rootDigest, rootErr, digest, digestErr, prev >>

\* file.Digest["sha256"], line 206
Lookup(digestMap, alg) ==
  IF \E p \in digestMap : p[1] = alg
  THEN [ok |-> TRUE, value |-> (CHOOSE p \in digestMap : p[1] = alg)[2]]
  ELSE [ok |-> FALSE, value |-> << >>]

\* The entries sorted by name once more before they are hashed.
RangeFilesSorted(m) == SortSlice(m.Files)

\* The entries the loop of line 204 ranges over, in its order.
RangeFiles(m) == m.Files

\* The hasher keeping only what was written last.
WriteOverwrites(written, bytes) == bytes

\* hasher.Write, line 218
Write(written, bytes) == written \o bytes

\* One round of the loop of lines 204-219.
RootStep ==
  /\ pc = "root"
  /\ idx <= Len(RangeFiles(manifest))
  /\ LET file == RangeFiles(manifest)[idx]
         hashValue == Lookup(file.Digest, "sha256")
         hashBytes == HexDecode(hashValue.value)
     IN  IF ~hashValue.ok
         THEN /\ rootErr' = [kind |-> "notfound", path |-> file.Name]
              /\ rootDigest' = << >>
              /\ hasher' = << >>
              /\ idx' = 0
              /\ pc' = "rooted"
         ELSE IF hashBytes.err
         THEN /\ rootErr' = [kind |-> "decode", path |-> file.Name]
              /\ rootDigest' = << >>
              /\ hasher' = << >>
              /\ idx' = 0
              /\ pc' = "rooted"
         ELSE /\ hasher' = Write(hasher, hashBytes.bytes)
              /\ idx' = idx + 1
              /\ UNCHANGED << rootErr, rootDigest, pc >>
  /\ UNCHANGED << tree, opts, ignorePaths, stack, filesToHash, manifest, serErr,
                  digest, digestErr, prev >>

\* Lines 221-222: the sum of everything written, in hex.
RootSum ==
  /\ pc = "root"
  /\ idx > Len(RangeFiles(manifest))
  /\ rootDigest' = HexEncode(Sha256(hasher))
  /\ rootErr' = NoErr
  /\ hasher' = << >>
  /\ idx' = 0
  /\ pc' = "rooted"
  /\ UNCHANGED << tree, opts, ignorePaths, stack, filesToHash, manifest, serErr,
                  digest, digestErr, prev >>

\* The algorithm's name in capitals.
Sha256PrefixUpper == Lit(<< "S", "H", "A", "2", "5", "6", ":" >>)

\* The prefix of line 239
Sha256Prefix == Lit(<< "s", "h", "a", "2", "5", "6", ":" >>)

\* ComputeDigest, lines 235-239
DigestReturn ==
  /\ pc = "rooted"
  /\ IF rootErr # NoErr
     THEN digest' = << >> /\ digestErr' = rootErr
     ELSE digest' = Sha256Prefix \o rootDigest /\ digestErr' = NoErr
  /\ pc' = "done"
  /\ UNCHANGED << tree, opts, ignorePaths, stack, filesToHash, manifest, serErr,
                  idx, hasher, rootDigest, rootErr, prev >>

Next ==
  \/ Start
  \/ WalkVisit
  \/ HashAndBuild
  \/ DigestFail
  \/ CallRoot
  \/ RootStep
  \/ RootSum
  \/ DigestReturn

\* ComputeDigest on a tree and a configuration.
Spec == Init /\ [][Next]_vars


(***************************************************************************)
(* ComputeRootDigest on a manifest the caller built.                       *)
(***************************************************************************)
\* Digest strings of hand-built entries: "ab", "0F", "" (valid hex), "g0"
\* (no hex) and "abc" (odd length).
HexChoices ==
  { Lit(<< "a", "b" >>), Lit(<< "0", "F" >>), Lit(<< >>),
    Lit(<< "g", "0" >>), Lit(<< "a", "b", "c" >>) }

DigestChoices ==
  { { << "sha256", h >> } : h \in HexChoices }
    \cup { { << "sha512", Lit(<< "a", "b" >>) >> } }

Entries == [Name : { nA, nB }, Digest : DigestChoices]

Manifests ==
  { [nil |-> FALSE, ModelName |-> Base(RootPath), Files |-> fs] :
      fs \in SeqsUpTo(Entries, MaxManifest) }

InitRoot ==
  /\ tree = (<< >> :> DirNode)
  /\ opts = Default
  /\ ignorePaths = << >> /\ stack = << >> /\ filesToHash = << >>
  /\ manifest \in Manifests
  /\ serErr = NoErr
  /\ pc = "root"
  /\ idx = 1
  /\ hasher = << >> /\ rootDigest = << >> /\ rootErr = NoErr
  /\ digest = << >> /\ digestErr = NoErr
  /\ prev = None

NextRoot == RootStep \/ RootSum

\* ComputeRootDigest on any manifest.
SpecRoot == InitRoot /\ [][NextRoot]_vars

(***************************************************************************)
(* A second call after a change of the tree.                               *)
(***************************************************************************)
FileKeys(t) == { k \in DOMAIN t : t[k].kind = "file" }

\* The places a regular file may be moved to: a free name of the model in
\* the root or in a directory of the tree.
FreeFileKeys(t) ==
  { k \in Universe \ (DirKeys \cup LinkKeys \cup DOMAIN t) : Parent(k) \in DOMAIN t }

Restrict(f, S) == [x \in S |-> f[x]]

\* The tree unchanged, one file rewritten, or one file renamed.
Changes(t) ==
  { t }
    \cup { [t EXCEPT ![k].content = c] : k \in FileKeys(t), c \in Contents }
    \cup { Restrict(t, DOMAIN t \ { k }) @@ (k2 :> t[k]) :
             k \in FileKeys(t), k2 \in FreeFileKeys(t) }

\* ComputeDigest has returned; the tree changes, and the caller is about to
\* call ComputeDigest again with the same options.
Modify ==
  /\ pc = "done"
  /\ ~prev.set
  /\ prev' = [set |-> TRUE, tree |-> tree, filesToHash |-> filesToHash,
              manifest |-> manifest, serErr |-> serErr, rootDigest |-> rootDigest,
              digest |-> digest, digestErr |-> digestErr]
  /\ tree' \in Changes(tree)
  /\ ignorePaths' = << >> /\ stack' = << >> /\ filesToHash' = << >>
  /\ manifest' = NilManifest /\ serErr' = NoErr
  /\ idx' = 0 /\ hasher' = << >> /\ rootDigest' = << >> /\ rootErr' = NoErr
  /\ digest' = << >> /\ digestErr' = NoErr
  /\ pc' = "idle"
  /\ UNCHANGED opts

InitChange ==
  /\ Init
  /\ Cardinality(DOMAIN tree) <= MaxChangeEntries + 1

NextChange == Next \/ Modify

\* Two calls of ComputeDigest, the tree changing in between.
SpecChange == InitChange /\ [][NextChange]_vars


(***************************************************************************)
(* What the claims speak of, stated on the tree and the options.           *)
(***************************************************************************)
\* Serialize has returned.
Returned == pc \in { "serialized", "root", "rooted", "done" }
\* Serialize has returned a manifest.
Succeeded == Returned /\ ~manifest.nil

NamesOf(m) == { m.Files[i].Name : i \in 1..Len(m.Files) }

\* The relative path of entry k: its names from the root, '/' between them.
RECURSIVE SlashName(_)
SlashName(k) ==
  IF Len(k) = 1 THEN k[1] ELSE SlashName(Parent(k)) \o << "/" >> \o k[Len(k)]

\* Name sequence a leads to b: a is b or an ancestor of b.
LeadsTo(a, b) == Len(a) <= Len(b) /\ SubSeq(b, 1, Len(a)) = a

\* The entry an ignore specifier names: for an absolute specifier, the names
\* after those of the model directory, if it lies inside it; for a relative
\* one, its names.
Denoted(spec) ==
  LET e == Split(spec)
      r == Split(RootPath)
  IN  IF spec # << >> /\ spec[1] = "/"
      THEN IF LeadsTo(r, e) THEN [inside |-> TRUE, key |-> SubSeq(e, Len(r) + 1, Len(e))]
           ELSE [inside |-> FALSE, key |-> << >>]
      ELSE [inside |-> TRUE, key |-> e]

\* The entries the caller's specifiers name, and those of the git flag.
CallerKeys ==
  { Denoted(opts.IgnorePaths[i]).key :
      i \in { j \in 1..Len(opts.IgnorePaths) : Denoted(opts.IgnorePaths[j]).inside } }
GitKeys == { << nGit >>, << nGitignore >>, << nGitattributes >>, << nGithub >> }
EffectiveKeys == CallerKeys \cup (IF opts.IgnoreGitPaths THEN GitKeys ELSE { })

\* Entry k is named by an effective specifier, or an ancestor of it is.
Covered(k) == \E e \in EffectiveKeys : LeadsTo(e, k)

\* The regular files that are to be in the manifest.
ExpectedKeys == { k \in FileKeys(tree) : ~Covered(k) }

\* Byte-wise s < t, stated on positions: s and t agree up to a position
\* where s has ended and t has not, or where s has the smaller byte.
ByteLess(s, t) ==
  \E i \in 1..(Len(t)) :
    /\ i <= Len(s) + 1
    /\ SubSeq(s, 1, i - 1) = SubSeq(t, 1, i - 1)
    /\ (i = Len(s) + 1 \/ Ord[s[i]] < Ord[t[i]])

(***************************************************************************)
(* The claims.                                                             *)
(***************************************************************************)
\* C1: whenever Serialize succeeds, the relative paths of the manifest are
\* exactly those of the regular files that no effective ignore specifier
\* names, themselves or by an ancestor directory: as many entries as such
\* files, no path twice, every path root-relative with '/' between its names.
C1_ManifestIsTheIncludedFiles ==
  Succeeded =>
    /\ NamesOf(manifest) = { SlashName(k) : k \in ExpectedKeys }
    /\ Len(manifest.Files) = Cardinality(ExpectedKeys)
    /\ \A i, j \in 1..Len(manifest.Files) :
         manifest.Files[i].Name = manifest.Files[j].Name => i = j

\* C2: every manifest Serialize returns is strictly ascending by relative
\* path under byte-wise comparison.
C2_StrictlyAscending ==
  Succeeded =>
    \A i \in 1..(Len(manifest.Files) - 1) :
      ByteLess(manifest.Files[i].Name, manifest.Files[i + 1].Name)

\* A manifest of several files whose first file is not the first the walk
\* collected.
C2_Witness ==
  /\ Succeeded
  /\ Len(manifest.Files) >= 2
  /\ \E k \in DOMAIN tree :
       PathOf(k) = filesToHash[1] /\ SlashName(k) # manifest.Files[1].Name


\* Both calls returned a manifest, and the tree did not change in between.
SameTreeTwice == prev.set /\ prev.tree = tree /\ ~prev.manifest.nil /\ Succeeded

\* C3: for the same tree and configuration, two walks that take the entries
\* in any two orders yield equal manifests, and a second call on the
\* unchanged tree yields the same root digest.
C3_OrderIndependent ==
  SameTreeTwice =>
    /\ manifest = prev.manifest
    /\ pc = "done" => (digest = prev.digest /\ rootDigest = prev.rootDigest)

\* Two calls on one tree whose walks collected the files in different
\* orders, both through to the digest.
C3_Witness ==
  /\ SameTreeTwice
  /\ pc = "done"
  /\ Len(filesToHash) >= 2
  /\ filesToHash # prev.filesToHash
  /\ digestErr = NoErr

\* The raw bytes of an entry's sha256 value.
RawBytes(file) ==
  HexDecode((CHOOSE p \in file.Digest : p[1] = "sha256")[2]).bytes

\* The raw bytes of entries i..n of the manifest, one after the other.
RECURSIVE Concatenation(_, _)
Concatenation(files, i) ==
  IF i > Len(files) THEN << >>
  ELSE RawBytes(files[i]) \o Concatenation(files, i + 1)

\* The hex digits of SHA-256 of the empty input.
EmptyDigestString ==
  Lit(<< "e", "3", "b", "0", "c", "4", "4", "2", "9", "8", "f", "c", "1", "c", "1", "4",
         "9", "a", "f", "b", "f", "4", "c", "8", "9", "9", "6", "f", "b", "9", "2", "4",
         "2", "7", "a", "e", "4", "1", "e", "4", "6", "4", "9", "b", "9", "3", "4", "c",
         "a", "4", "9", "5", "9", "9", "1", "b", "7", "8", "5", "2", "b", "8", "5", "5" >>)

\* C4: the root digest is the hex form of SHA-256, applied once, of the
\* entries' decoded sha256 bytes concatenated in the manifest's stored order;
\* for a manifest without entries it is the digest of the empty input.
C4_RootDigestOfStoredOrder ==
  (pc = "rooted" /\ rootErr = NoErr) =>
    /\ rootDigest = HexEncode(Sha256(Concatenation(manifest.Files, 1)))
    /\ manifest.Files = << >> => rootDigest = EmptyDigestString

\* The digest of a manifest that is not sorted by name and whose entries
\* differ in their bytes.
C4_Witness ==
  /\ pc = "rooted" /\ rootErr = NoErr
  /\ Len(manifest.Files) >= 2
  /\ StrLess(manifest.Files[2].Name, manifest.Files[1].Name)
  /\ RawBytes(manifest.Files[1]) # RawBytes(manifest.Files[2])


\* The caller's specifiers that name an entry of the tree.
TreeSpecs ==
  { i \in 1..Len(opts.IgnorePaths) :
      Denoted(opts.IgnorePaths[i]).inside
        /\ Denoted(opts.IgnorePaths[i]).key \in DOMAIN tree \ { << >> } }

\* C5: for every ignore specifier that names an entry of the tree, by its
\* root-relative or its absolute path: no file beneath a named directory is
\* in the manifest, at any depth; a named file is not in the manifest; and a
\* file that no effective specifier names or leads to stays in the manifest,
\* also when its path starts with the characters of a specifier.
C5_IgnoreSpecifierRemoves ==
  Succeeded =>
    /\ \A i \in TreeSpecs : \A k \in FileKeys(tree) :
         LeadsTo(Denoted(opts.IgnorePaths[i]).key, k)
           => SlashName(k) \notin NamesOf(manifest)
    /\ \A k \in FileKeys(tree) :
         ~Covered(k) => SlashName(k) \in NamesOf(manifest)

\* The files at or beneath the four git names directly under the root.
GitFileKeys == { k \in FileKeys(tree) : << k[1] >> \in GitKeys }

\* C6: with IgnoreGitPaths on, no entry of the manifest is .gitignore or
\* .gitattributes at the root or is, or lies beneath, .git or .github at the
\* root; with it off, and no caller specifier naming them, the regular
\* files at those paths are in the manifest.
C6_GitPaths ==
  Succeeded =>
    IF opts.IgnoreGitPaths
    THEN \A n \in NamesOf(manifest) :
           /\ n \notin { nGitignore, nGitattributes, nGit, nGithub }
           /\ ~HasPrefix(n, nGit \o << "/" >>)
           /\ ~HasPrefix(n, nGithub \o << "/" >>)
    ELSE \A k \in GitFileKeys :
           (~\E e \in CallerKeys : LeadsTo(e, k)) => SlashName(k) \in NamesOf(manifest)

\* A manifest made with the flag on, of a tree with a git file at the root
\* and a file beneath a git directory.
C6_Witness ==
  /\ Succeeded
  /\ opts.IgnoreGitPaths
  /\ \E k \in GitFileKeys : Len(k) = 1
  /\ \E k \in GitFileKeys : Len(k) = 2

\* A manifest made with the flag off that holds a file beneath .git.
C6_WitnessOff ==
  /\ Succeeded
  /\ ~opts.IgnoreGitPaths
  /\ \E k \in GitFileKeys : Len(k) = 2 /\ SlashName(k) \in NamesOf(manifest)


\* The symbolic links of the tree that no ignored directory holds: no proper
\* ancestor of theirs is named by an effective specifier or lies beneath one.
OpenLinks ==
  { k \in DOMAIN tree :
      tree[k].kind = "symlink" /\ ~\E e \in EffectiveKeys : LeadsTo(e, Parent(k)) }

\* C7: with symlinks disallowed and no I/O error, Serialize fails exactly
\* when the tree holds a symbolic link that is not beneath an ignored
\* directory; the error names that link's path and no manifest is returned.
C7_SymlinkAborts ==
  (Returned /\ ~opts.AllowSymlinks /\ serErr.kind # "hash") =>
    /\ serErr # NoErr <=> OpenLinks # { }
    /\ serErr # NoErr =>
         /\ manifest = NilManifest
         /\ serErr.kind = "symlink"
         /\ \E k \in OpenLinks : serErr.path = RootPath \o << "/" >> \o SlashName(k)

LowerHex(c) ==
  IF c.of = << >>
  THEN c.ch \in { "0", "1", "2", "3", "4", "5", "6", "7", "8", "9",
                  "a", "b", "c", "d", "e", "f" }
  ELSE c.ch \in { "hi", "lo" }

\* C8: when ComputeDigest succeeds its output is "sha256:" and 64 lowercase
\* hex characters, 71 in all, the 64 being the root digest of the manifest
\* Serialize produced; when a stage fails it returns that stage's error and
\* the empty string.
C8_DigestFormat ==
  pc = "done" =>
    IF digestErr = NoErr
    THEN /\ serErr = NoErr /\ rootErr = NoErr
         /\ Len(digest) = 71
         /\ SubSeq(digest, 1, 7) = Lit(<< "s", "h", "a", "2", "5", "6", ":" >>)
         /\ \A i \in 8..71 : LowerHex(digest[i])
         /\ SubSeq(digest, 8, 71) = HexEncode(Sha256(Concatenation(manifest.Files, 1)))
    ELSE /\ digest = << >>
         /\ digestErr = IF serErr # NoErr THEN serErr ELSE rootErr

\* ComputeDigest has succeeded on a tree of which several files are in the
\* manifest.
C8_Witness ==
  /\ pc = "done"
  /\ digestErr = NoErr
  /\ Len(manifest.Files) >= 2

\* ComputeDigest has returned the error of Serialize.
C8_WitnessFailed ==
  /\ pc = "done"
  /\ digestErr # NoErr

\* A string of an even number of hex digits of either case.
ValidHex(s) ==
  /\ Len(s) % 2 = 0
  /\ \A i \in 1..Len(s) :
       /\ s[i].of = << >>
       /\ s[i].ch \in { "0", "1", "2", "3", "4", "5", "6", "7", "8", "9",
                        "a", "b", "c", "d", "e", "f", "A", "B", "C", "D", "E", "F" }

Sha256Value(file) ==
  IF \E p \in file.Digest : p[1] = "sha256"
  THEN (CHOOSE p \in file.Digest : p[1] = "sha256")[2]
  ELSE << >>

LacksSha256(file) == ~\E p \in file.Digest : p[1] = "sha256"

\* The entries without a sha256 value or with one that is no valid hex.
BadEntries(m) ==
  { i \in 1..Len(m.Files) :
      LacksSha256(m.Files[i]) \/ ~ValidHex(Sha256Value(m.Files[i])) }

FirstOf(S) == CHOOSE i \in S : \A j \in S : i <= j

\* C9: when an entry lacks the sha256 digest or carries one that is no valid
\* hex, ComputeRootDigest returns the empty string and an error naming the
\* first such entry of the manifest by its relative path.
C9_RootDigestFails ==
  (pc = "rooted" /\ BadEntries(manifest) # { }) =>
    /\ rootDigest = << >>
    /\ rootErr # NoErr
    /\ rootErr.path = manifest.Files[FirstOf(BadEntries(manifest))].Name
    /\ rootErr.kind = IF LacksSha256(manifest.Files[FirstOf(BadEntries(manifest))])
                      THEN "notfound" ELSE "decode"

\* ComputeRootDigest has failed at an entry of odd length that good entries
\* precede and a bad entry follows.
C9_Witness ==
  /\ pc = "rooted"
  /\ Cardinality(BadEntries(manifest)) >= 2
  /\ FirstOf(BadEntries(manifest)) > 1
  /\ Len(Sha256Value(manifest.Files[FirstOf(BadEntries(manifest))])) % 2 = 1


\* Both calls of ComputeDigest returned a digest.
BothDone == prev.set /\ pc = "done" /\ digestErr = NoErr /\ prev.digestErr = NoErr

\* The files of tree t that manifest m holds.
IncludedKeys(t, m) == { k \in FileKeys(t) : SlashName(k) \in NamesOf(m) }

\* The (relative path, content) pairs of the included files.
IncludedPairs(t, m) == { << SlashName(k), t[k].content >> : k \in IncludedKeys(t, m) }

\* The contents of the included files, in ascending order of relative path.
ContentsInOrder(t, m) ==
  LET ks == IncludedKeys(t, m)
      order == CHOOSE f \in [1..Cardinality(ks) -> ks] :
                 \A i, j \in 1..Cardinality(ks) :
                   i < j => ByteLess(SlashName(f[i]), SlashName(f[j]))
  IN  [i \in 1..Cardinality(ks) |-> t[order[i]].content]

\* C10 as stated: two trees processed with the same configuration get the
\* same root digest exactly when their sets of included (relative path,
\* content) pairs are equal.
C10_DigestIffSamePairs ==
  BothDone =>
    (digest = prev.digest
       <=> IncludedPairs(tree, manifest) = IncludedPairs(prev.tree, prev.manifest))

\* C10 amended: two trees processed with the same configuration get the
\* same root digest exactly when the contents of their included files, taken
\* in ascending order of relative path, are equal.
C10_DigestIffSameContentsInOrder ==
  BothDone =>
    (digest = prev.digest
       <=> ContentsInOrder(tree, manifest) = ContentsInOrder(prev.tree, prev.manifest))

\* The content of one of several included files was changed between the
\* calls, and the digests differ.
C10_Witness ==
  /\ BothDone
  /\ NamesOf(manifest) = NamesOf(prev.manifest)
  /\ Len(manifest.Files) >= 2
  /\ \E k \in IncludedKeys(tree, manifest) : tree[k].content # prev.tree[k].content
  /\ digest # prev.digest

\* An included file was renamed between the calls, and the digests are equal.
C10_WitnessRenamed ==
  /\ BothDone
  /\ NamesOf(manifest) # NamesOf(prev.manifest)
  /\ digest = prev.digest

\* A file outside the manifest was changed between the calls, and the
\* digests are equal.
C10_WitnessIgnored ==
  /\ BothDone
  /\ \E k \in FileKeys(tree) \ IncludedKeys(tree, manifest) :
       k \in DOMAIN prev.tree /\ tree[k].content # prev.tree[k].content
  /\ manifest.Files # << >>
  /\ digest = prev.digest

\* The complete ignore list with every absolute specifier inside the model
\* directory replaced by the root-relative specifier of the same entry, and
\* every absolute specifier outside it left out.
RECURSIVE RelativeForm(_)
RelativeForm(list) ==
  IF list = << >> THEN << >>
  ELSE LET s == Head(list)
           d == Denoted(s)
       IN  (IF ~IsAbs(s) THEN << s >>
            ELSE IF d.inside /\ d.key # << >> THEN << JoinElems(d.key) >>
            ELSE << >>)
           \o RelativeForm(Tail(list))

\* The complete ignore list of the call: the caller's, then the git names
\* joined to the root when the flag is on.
CompleteList ==
  opts.IgnorePaths \o
    (IF opts.IgnoreGitPaths
     THEN << RootPath \o << "/" >> \o nGit, RootPath \o << "/" >> \o nGitignore,
             RootPath \o << "/" >> \o nGitattributes, RootPath \o << "/" >> \o nGithub >>
     ELSE << >>)

\* C11: an absolute ignore specifier outside the model directory matches
\* nothing, and one inside it is matched like the root-relative specifier of
\* the same entry, whatever its names: the manifest holds exactly the regular
\* files that the relative form of the ignore list does not match.
C11_AbsoluteLikeRelative ==
  Succeeded =>
    NamesOf(manifest) =
      { SlashName(k) :
          k \in { f \in FileKeys(tree) :
                    ~shouldIgnore(PathOf(f), RootPath, RelativeForm(CompleteList)).ignore } }

\* The symbolic links of the tree that no effective specifier names or leads
\* to.
FreeLinks ==
  { k \in DOMAIN tree : tree[k].kind = "symlink" /\ ~Covered(k) }

\* C12: with symlinks allowed, a link that is not ignored is treated as its
\* target: a link to a regular file has an entry in the manifest, and a link
\* to a directory is descended into by the walk.
C12_LinkTreatedAsTarget ==
  (Succeeded /\ opts.AllowSymlinks) =>
    \A k \in FreeLinks :
      /\ tree[k].target = "file" => SlashName(k) \in NamesOf(manifest)
      /\ tree[k].target = "dir" => Visit(k).res = "descend"

\* C13: no step of a call changes the caller's Options (the ignore list and
\* both flags), whether the call succeeds or fails, and a later call on the
\* unchanged tree returns a manifest equal to the first.
C13_OptionsNeverModified ==
  [][/\ opts' = opts
     /\ SameTreeTwice' => manifest' = prev'.manifest]_vars

\* A second call has returned a manifest for an unchanged tree, the git flag
\* on and a caller's specifier in the list.
C13_Witness ==
  /\ SameTreeTwice
  /\ opts.IgnoreGitPaths
  /\ opts.IgnorePaths # << >>
  /\ manifest.Files # << >>

\* A second call has returned after a first one that failed.
C13_WitnessFailed ==
  /\ prev.set
  /\ prev.serErr # NoErr
  /\ Returned

\* The regular files that bear a git name, or lie beneath a directory that
\* bears one, inside a subdirectory that is itself none of the four at the
\* root.
NestedGitFileKeys ==
  { k \in FileKeys(tree) :
      /\ << k[1] >> \notin GitKeys
      /\ \E i \in 2..Len(k) : << k[i] >> \in GitKeys }

\* C14: with the git flag on, the regular files named .gitignore or
\* .gitattributes inside a subdirectory, and those beneath a .git or .github
\* directory inside a subdirectory, are in the manifest unless a caller's
\* specifier names them or leads to them.
C14_GitOnlyAtRoot ==
  (Succeeded /\ opts.IgnoreGitPaths) =>
    \A k \in NestedGitFileKeys :
      (~\E e \in CallerKeys : LeadsTo(e, k)) => SlashName(k) \in NamesOf(manifest)

\* A manifest made with the flag on of a tree with .gitignore at the root and
\* in a subdirectory: the manifest holds the second and not the first.
C14_Witness ==
  /\ Succeeded
  /\ opts.IgnoreGitPaths
  /\ << nGitignore >> \in FileKeys(tree)
  /\ NamesOf(manifest) = { nA \o << "/" >> \o nGitignore }

\* A manifest made with the flag on that holds a file beneath a .git
\* directory of a subdirectory.
C14_WitnessGitDir ==
  /\ Succeeded
  /\ opts.IgnoreGitPaths
  /\ (nA \o << "/" >> \o nGit \o << "/" >> \o nB) \in NamesOf(manifest)


=============================================================================
